---- MODULE Spec2Model ----
(***************************************************************************)
(* Model of the strategic engine backend: DocumentProcessor                 *)
(* (services/document_processor.py), RAGService (services/rag_service.py), *)
(* OpenAIService (services/openai_service.py) and the routes                *)
(* (api/routes.py).                                                        *)
(*                                                                         *)
(* A Python str is modelled as a sequence of one-character strings.        *)
(* Python indices are 0-based, sequence indices 1-based: text[i] of the    *)
(* source is At(text, i) here, and the slice text[a:b] is Slice(text,a,b). *)
(***************************************************************************)
EXTENDS Integers, Sequences, FiniteSets, TLC

VARIABLES
    pc,             \* position of the call in progress
    file_content,   \* process_document: the uploaded bytes (the characters they decode to)
    filename,       \* process_document / classify_document: the file name
    content,        \* classify_document / extract_metadata: the content argument
    text,           \* chunk_text: the text to split
    chunk_size,     \* chunk_text: parameter
    overlap,        \* chunk_text: parameter
    start,          \* chunk_text: the cursor
    chunks,         \* chunk_text: the list built, and at "done" the list returned
    spans,          \* chunk_text: the slices [s, e) of text taken, in order, before trimming
    category_scores,\* classify_document: the score of each category
    document_type,  \* classify_document: the value returned
    doc_metadata,   \* extract_metadata: the record returned
    client,         \* OpenAIService.client is set (an API key is configured)
    index,          \* RAGService.index is set (the Pinecone index is connected)
    failing,        \* the provider calls that raise while the request is served
    matches,        \* what index.query finds for the query
    similar_chunks, \* generate_rag_response: what search_similar_chunks returned
    answer,         \* generate_rag_response: the dict returned
    asked,          \* the provider calls made while the request was served
    prompt_sources, \* generate_strategic_response: the sources written into the prompt
    embeddings,     \* index_document_chunks: what generate_embeddings_batch returned
    upserts,        \* index_document_chunks: the batches handed to index.upsert, in order
    result,         \* index_document_chunks: the value returned
    documents,      \* the rows of the documents table
    vectors,        \* the vectors of the Pinecone index
    document_id,    \* delete_document / index_document_chunks: the document id
    reply,          \* the routes: the HTTP response of the request served
    query,          \* submit_query: the question
    query_history   \* the rows of the query_history table

\* the state of DocumentProcessor
processorVars == <<file_content, filename, content, text, chunk_size, overlap, start, chunks,
                   spans, category_scores, document_type, doc_metadata>>

\* the state of the services and of the routes
serviceVars == <<client, index, failing, matches, similar_chunks, answer, asked,
                 prompt_sources, embeddings, upserts, result, documents, vectors,
                 document_id, reply, query, query_history>>

vars == <<pc, processorVars, serviceVars>>

(***************************************************************************)
(* Bounds of the model.                                                    *)
(***************************************************************************)
MaxLen == 5
MaxChunkSize == 3
MaxOverlap == 2

(***************************************************************************)
(* Integers and characters.                                                *)
(***************************************************************************)
Min(a, b) == IF a <= b THEN a ELSE b
Max(a, b) == IF a >= b THEN a ELSE b

UpperLetters == <<"A", "B", "C", "D", "E", "F", "G", "H", "I", "J", "K", "L", "M",
                  "N", "O", "P", "Q", "R", "S", "T", "U", "V", "W", "X", "Y", "Z">>
LowerLetters == <<"a", "b", "c", "d", "e", "f", "g", "h", "i", "j", "k", "l", "m",
                  "n", "o", "p", "q", "r", "s", "t", "u", "v", "w", "x", "y", "z">>

\* str.isspace() of one character
IsSpace(c) == c \in {" ", "\n", "\t", "\r"}

\* str.isupper() of one character
IsUpper(c) == \E k \in 1..Len(UpperLetters) : UpperLetters[k] = c

\* text[i], i a Python index
At(s, i) == s[i + 1]

\* text[a:b] for 0 <= a; b is clipped to len(text) as Python clips it
Slice(s, a, b) == SubSeq(s, a + 1, Min(b, Len(s)))

\* str.strip(): leading and trailing whitespace removed
Strip(s) ==
    IF \A i \in 1..Len(s) : IsSpace(s[i]) THEN <<>>
    ELSE LET first == CHOOSE i \in 1..Len(s) :
                          /\ ~IsSpace(s[i])
                          /\ \A j \in 1..(i - 1) : IsSpace(s[j])
             last == CHOOSE i \in 1..Len(s) :
                          /\ ~IsSpace(s[i])
                          /\ \A j \in (i + 1)..Len(s) : IsSpace(s[j])
         IN SubSeq(s, first, last)

(***************************************************************************)
(* chunk_text (document_processor.py 113-162).                             *)
(***************************************************************************)
sentence_endings == {".", "!", "?", "\n"}

\* the number of trailing characters of the window the scan may look at
ScanBack == 200

\* default parameters of chunk_text
DefaultChunkSize == 1000
DefaultOverlap == 200

\* lines 139-140: index i of the window is a sentence ending, is not the last
\* index, and is followed by whitespace or an upper-case letter
GoodBreak(w, i) ==
    /\ At(w, i) \in sentence_endings
    /\ i < Len(w) - 1
    /\ (IsSpace(At(w, i + 1)) \/ IsUpper(At(w, i + 1)))

\* the indices range(len(w) - 1, max(0, len(w) - 200), -1) visits
ScanRange(w) == {i \in 0..(Len(w) - 1) : i > Max(0, Len(w) - ScanBack)}

\* lines 135-142: the search runs backwards and stops at the first good
\* index, the greatest one of the range: best_break is that index + 1, and
\* -1 if there is none
BestBreak(w) ==
    LET good == {i \in ScanRange(w) : GoodBreak(w, i)}
    IN IF good = {} THEN 0 - 1
       ELSE (CHOOSE i \in good : \A j \in good : j <= i) + 1

\* line 123
End == start + chunk_size

\* the window of line 131
Window == Slice(text, start, End)

\* CutEnd with the window of the no-break case one character too long
CutEnd_LongWindow == IF BestBreak(Window) > 0 THEN start + BestBreak(Window) ELSE End + 1

\* the end (exclusive) of the slice a non-final iteration takes: lines 144-153
CutEnd == IF BestBreak(Window) > 0 THEN start + BestBreak(Window) ELSE End

\* NextStart with the overlap subtracted from the end of the window
NextStart_FromEnd(e) == IF End - overlap < 0 THEN 0 ELSE End - overlap

\* NextStart without the clamp of lines 156-157
NextStart_NoClamp(e) == e - overlap

\* NextStart stepping one character past the overlap
NextStart_Skip(e) == IF e - overlap + 1 < 0 THEN 0 ELSE e - overlap + 1

\* lines 148/153 and the clamp of lines 156-157
NextStart(e) == IF e - overlap < 0 THEN 0 ELSE e - overlap

\* the chunk a slice gives: lines 127, 146, 151
ChunkOf(a, b) == Strip(Slice(text, a, b))

\* RemoveEmpty without the filter
RemoveEmpty_KeepAll(cs) == cs

\* line 160
RECURSIVE RemoveEmpty(_)
RemoveEmpty(cs) ==
    IF cs = <<>> THEN <<>>
    ELSE IF Strip(Head(cs)) # <<>> THEN <<Head(cs)>> \o RemoveEmpty(Tail(cs))
         ELSE RemoveEmpty(Tail(cs))

\* chunks.append: a run that has appended more chunks than the text has
\* characters has seen a cursor value twice and repeats for ever; the list of
\* such a run is not extended further, which keeps its states finite.
Push(list, x) == IF Len(list) <= Len(text) THEN Append(list, x) ELSE list

\* lines 115-116: the whole text as the only chunk
ReturnWhole ==
    /\ pc = "chunk_text"
    /\ Len(text) <= chunk_size
    /\ chunks' = <<text>>
    /\ spans' = <<<<0, Len(text)>>>>
    /\ pc' = "done"
    /\ UNCHANGED <<file_content, filename, content, text, chunk_size, overlap, start,
                   category_scores, document_type, doc_metadata>>
    /\ UNCHANGED serviceVars

\* lines 118-119
EnterLoop ==
    /\ pc = "chunk_text"
    /\ Len(text) > chunk_size
    /\ chunks' = <<>>
    /\ spans' = <<>>
    /\ start' = 0
    /\ pc' = "loop"
    /\ UNCHANGED <<file_content, filename, content, text, chunk_size, overlap,
                   category_scores, document_type, doc_metadata>>
    /\ UNCHANGED serviceVars

\* lines 121-128 and 160-162: the loop is left, by the break after the last
\* chunk (end >= len(text)) or by the loop test (start >= len(text)); then
\* the filter and the return
Finish ==
    /\ pc = "loop"
    /\ ~(start < Len(text) /\ End < Len(text))
    /\ chunks' = RemoveEmpty(IF start < Len(text)
                             THEN Push(chunks, ChunkOf(start, Len(text)))
                             ELSE chunks)
    /\ spans' = IF start < Len(text) THEN Push(spans, <<start, Len(text)>>) ELSE spans
    /\ pc' = "done"
    /\ UNCHANGED <<file_content, filename, content, text, chunk_size, overlap, start,
                   category_scores, document_type, doc_metadata>>
    /\ UNCHANGED serviceVars

\* lines 121-157: an iteration that is not the last
NextChunk ==
    /\ pc = "loop"
    /\ start < Len(text)
    /\ End < Len(text)
    /\ chunks' = Push(chunks, ChunkOf(start, CutEnd))
    /\ spans' = Push(spans, <<start, CutEnd>>)
    /\ start' = NextStart(CutEnd)
    /\ UNCHANGED <<pc, file_content, filename, content, text, chunk_size, overlap,
                   category_scores, document_type, doc_metadata>>
    /\ UNCHANGED serviceVars

ChunkText == ReturnWhole \/ EnterLoop \/ NextChunk \/ Finish

(***************************************************************************)
(* classify_document (document_processor.py 85-111).                       *)
(***************************************************************************)
\* lines 19-23; a dict keeps the order in which its keys were written
classification_keywords == <<
    [category |-> "financial", keywords |-> <<
        <<"r", "e", "v", "e", "n", "u", "e">>,
        <<"p", "r", "o", "f", "i", "t">>,
        <<"b", "u", "d", "g", "e", "t">>,
        <<"f", "i", "n", "a", "n", "c", "i", "a", "l">>,
        <<"i", "n", "c", "o", "m", "e">>,
        <<"e", "x", "p", "e", "n", "s", "e">>,
        <<"b", "a", "l", "a", "n", "c", "e", " ", "s", "h", "e", "e", "t">>,
        <<"c", "a", "s", "h", " ", "f", "l", "o", "w">>,
        <<"r", "o", "i">>,
        <<"i", "n", "v", "e", "s", "t", "m", "e", "n", "t">>>>],
    [category |-> "market_research", keywords |-> <<
        <<"m", "a", "r", "k", "e", "t">>,
        <<"r", "e", "s", "e", "a", "r", "c", "h">>,
        <<"s", "u", "r", "v", "e", "y">>,
        <<"a", "n", "a", "l", "y", "s", "i", "s">>,
        <<"c", "o", "m", "p", "e", "t", "i", "t", "o", "r">>,
        <<"c", "u", "s", "t", "o", "m", "e", "r">>,
        <<"t", "r", "e", "n", "d">>,
        <<"d", "e", "m", "o", "g", "r", "a", "p", "h", "i", "c">>,
        <<"s", "e", "g", "m", "e", "n", "t">>>>],
    [category |-> "internal", keywords |-> <<
        <<"e", "m", "p", "l", "o", "y", "e", "e">>,
        <<"h", "r">>,
        <<"h", "u", "m", "a", "n", " ", "r", "e", "s", "o", "u", "r", "c", "e", "s">>,
        <<"p", "o", "l", "i", "c", "y">>,
        <<"p", "r", "o", "c", "e", "d", "u", "r", "e">>,
        <<"i", "n", "t", "e", "r", "n", "a", "l">>,
        <<"s", "t", "a", "f", "f">>,
        <<"t", "e", "a", "m">>,
        <<"o", "r", "g", "a", "n", "i", "z", "a", "t", "i", "o", "n">>>>]>>

\* line 102: the number of leading characters of the content that are scored
SampleLen == 1000

\* str.lower() of one character and of a string
Lower(c) ==
    IF IsUpper(c)
    THEN LowerLetters[CHOOSE k \in 1..Len(UpperLetters) : UpperLetters[k] = c]
    ELSE c

LowerStr(s) == [i \in 1..Len(s) |-> Lower(s[i])]

\* s[i:i+len(keyword)] == keyword, i a Python index
MatchAt(s, keyword, i) ==
    /\ i + Len(keyword) <= Len(s)
    /\ \A j \in 1..Len(keyword) : s[i + j] = keyword[j]

\* keyword in s
Contains(s, keyword) == \E i \in 0..(Len(s) - Len(keyword)) : MatchAt(s, keyword, i)

Minimum(S) == CHOOSE x \in S : \A y \in S : x <= y

\* s.count(keyword): occurrences are counted from the left, and the search
\* resumes after the end of each occurrence counted
RECURSIVE CountFrom(_, _, _)
CountFrom(occ, n, i) ==
    LET rest == {j \in occ : j >= i}
    IN IF rest = {} THEN 0 ELSE 1 + CountFrom(occ, n, Minimum(rest) + n)

Count(s, keyword) ==
    CountFrom({i \in 0..(Len(s) - Len(keyword)) : MatchAt(s, keyword, i)}, Len(keyword), 0)

\* ContentSample scoring the whole content
ContentSample_Whole(content_lower) == content_lower

\* line 102
ContentSample(content_lower) == Slice(content_lower, 0, SampleLen)

\* KeywordScore without the file name
KeywordScore_ContentOnly(keyword, filename_lower, content_lower) ==
    Count(ContentSample(content_lower), keyword)

\* lines 98-103: what one keyword adds to the score
KeywordScore(keyword, filename_lower, content_lower) ==
    (IF Contains(filename_lower, keyword) THEN 2 ELSE 0)
        + Count(ContentSample(content_lower), keyword)

\* lines 94-103: the loop over the keywords of one category
RECURSIVE ScoreOf(_, _, _)
ScoreOf(keywords, filename_lower, content_lower) ==
    IF keywords = <<>> THEN 0
    ELSE KeywordScore(Head(keywords), filename_lower, content_lower)
            + ScoreOf(Tail(keywords), filename_lower, content_lower)

\* lines 87-105: the scores, in the order of the table
CategoryScores(fname, cont) ==
    [k \in 1..Len(classification_keywords) |->
        ScoreOf(classification_keywords[k].keywords, LowerStr(fname), LowerStr(cont))]

\* max(category_scores.values())
MaxScore(scores) == CHOOSE m \in {scores[k] : k \in 1..Len(scores)} :
                        \A k \in 1..Len(scores) : scores[k] <= m

\* FirstMax taking the last key of the greatest score
FirstMax_Last(scores) ==
    classification_keywords[CHOOSE k \in 1..Len(scores) :
        /\ scores[k] = MaxScore(scores)
        /\ \A j \in (k + 1)..Len(scores) : scores[j] # MaxScore(scores)].category

\* max(category_scores, key=category_scores.get): the first key, in the
\* order of the dict, whose score is the greatest
FirstMax(scores) ==
    classification_keywords[Minimum({k \in 1..Len(scores) : scores[k] = MaxScore(scores)})].category

\* Classification returning a keyword category even when nothing matched
Classification_NoDefault(scores) ==
    IF MaxScore(scores) >= 0 THEN FirstMax(scores) ELSE "general"

\* lines 108-111
Classification(scores) ==
    IF MaxScore(scores) > 0 THEN FirstMax(scores) ELSE "general"

\* classify_document(filename, content)
ClassifyDocument ==
    /\ pc = "classify_document"
    /\ category_scores' = CategoryScores(filename, content)
    /\ document_type' = Classification(category_scores')
    /\ pc' = "classified"
    /\ UNCHANGED <<file_content, filename, content, text, chunk_size, overlap, start,
                   chunks, spans, doc_metadata>>
    /\ UNCHANGED serviceVars

(***************************************************************************)
(* The providers (OpenAI, Pinecone, the database session).  A provider     *)
(* call is named by the API called and by its number, from 0, among the    *)
(* calls of that API in one request; the calls of `failing` raise an       *)
(* exception and every other call succeeds.                                *)
(***************************************************************************)
\* analyze_query_intent: openai_service.py 136
IntentCall == <<"ChatCompletion.create", 0>>
\* generate_strategic_response: openai_service.py 204
CompletionCall == <<"ChatCompletion.create", 1>>
\* generate_embedding: openai_service.py 67; batch k of
\* generate_embeddings_batch: openai_service.py 92
EmbeddingCall(k) == <<"Embedding.create", k>>
\* rag_service.py 150 and 184
QueryCall == <<"index.query", 0>>
\* rag_service.py 115, batch k
UpsertCall(k) == <<"index.upsert", k>>
\* rag_service.py 196
DeleteCall == <<"index.delete", 0>>
\* routes.py 173
CommitCall == <<"db.commit", 0>>

\* str(e) of the exception a failing call raises
Message(call) == call[1]

\* the value of a variable that holds nothing yet
NoAnswer == [pending |-> TRUE]
NoReply == [to |-> "none", status |-> 0, detail |-> "none"]

\* no request is being served by the services
ServiceIdle ==
    /\ client = FALSE
    /\ index = FALSE
    /\ failing = {}
    /\ matches = <<>>
    /\ similar_chunks = <<>>
    /\ answer = NoAnswer
    /\ asked = {}
    /\ prompt_sources = <<>>
    /\ embeddings = <<>>
    /\ upserts = <<>>
    /\ result = "none"
    /\ documents = {}
    /\ vectors = {}
    /\ document_id = 0
    /\ reply = NoReply
    /\ query = <<>>
    /\ query_history = {}

(***************************************************************************)
(* chunk_text called with any text and parameters.                         *)
(***************************************************************************)
Alphabet == {"a", "A", " ", ".", "\n"}

Texts == UNION {[1..n -> Alphabet] : n \in 0..MaxLen}

InitChunk ==
    /\ pc = "chunk_text"
    /\ text \in Texts
    /\ chunk_size \in 1..MaxChunkSize
    /\ overlap \in (0 - 1)..MaxOverlap
    /\ start = 0
    /\ chunks = <<>>
    /\ spans = <<>>
    /\ file_content = <<>>
    /\ filename = <<>>
    /\ content = <<>>
    /\ category_scores = <<>>
    /\ document_type = "none"
    /\ doc_metadata = <<>>
    /\ ServiceIdle

SpecChunk == InitChunk /\ [][ChunkText]_vars

(***************************************************************************)
(* chunk_text called with an overlap of three characters or more, below    *)
(* the chunk size: the parameters with which a break point can lie within  *)
(* the overlap.                                                            *)
(***************************************************************************)
CursorAlphabet == {"a", ".", "\n"}

CursorTexts == UNION {[1..n -> CursorAlphabet] : n \in 0..(MaxLen + 2)}

InitCursor ==
    /\ pc = "chunk_text"
    /\ text \in CursorTexts
    /\ chunk_size \in (MaxChunkSize + 1)..(MaxChunkSize + 2)
    /\ overlap \in (MaxOverlap + 1)..(chunk_size - 1)
    /\ start = 0
    /\ chunks = <<>>
    /\ spans = <<>>
    /\ file_content = <<>>
    /\ filename = <<>>
    /\ content = <<>>
    /\ category_scores = <<>>
    /\ document_type = "none"
    /\ doc_metadata = <<>>
    /\ ServiceIdle

SpecCursor == InitCursor /\ [][ChunkText]_vars

(***************************************************************************)
(* classify_document called with a file name and a content.                *)
(***************************************************************************)
\* "x.txt"
FN_Neutral == <<"x", ".", "t", "x", "t">>
\* "Financial_Report.pdf"
FN_Financial == <<"F", "i", "n", "a", "n", "c", "i", "a", "l", "_", "R", "e", "p", "o", "r", "t", ".", "p", "d", "f">>
\* "market_research.txt"
FN_Market == <<"m", "a", "r", "k", "e", "t", "_", "r", "e", "s", "e", "a", "r", "c", "h", ".", "t", "x", "t">>
\* "team_budget.docx"
FN_Tie == <<"t", "e", "a", "m", "_", "b", "u", "d", "g", "e", "t", ".", "d", "o", "c", "x">>
\* "notes.txt"
FN_Notes == <<"n", "o", "t", "e", "s", ".", "t", "x", "t">>
\* "setup.exe"
FN_Exe == <<"s", "e", "t", "u", "p", ".", "e", "x", "e">>
\* "SURVEY.PDF"
FN_UpperPdf == <<"S", "U", "R", "V", "E", "Y", ".", "P", "D", "F">>
\* "Revenue revenue "
W_Revenue == <<"R", "e", "v", "e", "n", "u", "e", " ", "r", "e", "v", "e", "n", "u", "e", " ">>
\* "expensexpense"
W_Expense == <<"e", "x", "p", "e", "n", "s", "e", "x", "p", "e", "n", "s", "e">>
\* "market trend "
W_Market == <<"m", "a", "r", "k", "e", "t", " ", "t", "r", "e", "n", "d", " ">>
\* "STAFF"
W_Staff == <<"S", "T", "A", "F", "F">>
\* "survey survey survey"
W_Survey == <<"s", "u", "r", "v", "e", "y", " ", "s", "u", "r", "v", "e", "y", " ", "s", "u", "r", "v", "e", "y">>
\* " policy profit profit"
W_Policy == <<" ", "p", "o", "l", "i", "c", "y", " ", "p", "r", "o", "f", "i", "t", " ", "p", "r", "o", "f", "i", "t">>

\* n times the character c
Fill(n, c) == [i \in 1..n |-> c]

Filenames == {FN_Neutral, FN_Financial, FN_Market, FN_Tie, FN_UpperPdf}

\* contents: some words, a filler, and words around the end of the sample
Contents ==
    {pre \o Fill(n, "x") \o post :
        pre \in {<<>>, W_Revenue, W_Expense, W_Market, W_Staff},
        n \in {0, SampleLen - 30, SampleLen - 20, SampleLen},
        post \in {<<>>, W_Survey, W_Policy}}

InitClassify ==
    /\ pc = "classify_document"
    /\ filename \in Filenames
    /\ content \in Contents
    /\ text = <<>>
    /\ chunk_size = DefaultChunkSize
    /\ overlap = DefaultOverlap
    /\ start = 0
    /\ chunks = <<>>
    /\ spans = <<>>
    /\ file_content = <<>>
    /\ category_scores = <<>>
    /\ document_type = "none"
    /\ doc_metadata = <<>>
    /\ ServiceIdle

SpecClassify == InitClassify /\ [][ClassifyDocument]_vars

(***************************************************************************)
(* extract_text_from_file, extract_metadata and process_document           *)
(* (document_processor.py 25-83, 164-181).  file_content is modelled by    *)
(* the text units the decoders find in the bytes: the pages of a PDF, the  *)
(* paragraphs of a DOCX, and for a TXT file the one decoded string.        *)
(***************************************************************************)
\* line 16
supported_formats == {<<".", "p", "d", "f">>, <<".", "d", "o", "c", "x">>, <<".", "t", "x", "t">>}

\* os.path.splitext(filename)[1].lower() for a file name without directories:
\* from the last dot on, unless only dots precede it
Extension(fname) ==
    LET dots == {i \in 1..Len(fname) : fname[i] = "."}
    IN IF dots = {} THEN <<>>
       ELSE LET d == CHOOSE i \in dots : \A j \in dots : j <= i
            IN IF \A j \in 1..(d - 1) : fname[j] = "." THEN <<>>
               ELSE LowerStr(SubSeq(fname, d, Len(fname)))

\* lines 47-48 and 58-59: text += unit + "\n"
RECURSIVE JoinUnits(_)
JoinUnits(units) ==
    IF units = <<>> THEN <<>> ELSE Head(units) \o <<"\n">> \o JoinUnits(Tail(units))

\* lines 30-35, for a supported extension
ExtractText(units, ext) ==
    IF ext = <<".", "t", "x", "t">> THEN Head(units) ELSE Strip(JoinUnits(units))

\* len(content.split()): the maximal runs of characters that are not whitespace
WordCount(s) ==
    Cardinality({i \in 1..Len(s) : ~IsSpace(s[i]) /\ (i = 1 \/ IsSpace(s[i - 1]))})

\* lines 73-83 (the extraction date is left out)
ExtractMetadata(cont) ==
    [word_count |-> WordCount(cont), character_count |-> Len(cont),
     file_size_chars |-> Len(cont)]

\* bytes that are neither a PDF nor a DOCX file; read as text they are
\* "garbage"
Garbage == <<<<"g", "a", "r", "b", "a", "g", "e">>>>

\* lines 41-59: PyPDF2.PdfReader and docx.Document raise on bytes that are
\* not a file of their format; decoding as text (lines 61-67) never raises,
\* latin-1 decodes every byte
DecoderRaises(units, ext) == ext # <<".", "t", "x", "t">> /\ units = Garbage

\* Raises with the test of line 169 written as `if not text`
Raises_EmptyOnly(fname, units) ==
    IF Extension(fname) \notin supported_formats THEN TRUE
    ELSE IF DecoderRaises(units, Extension(fname)) THEN TRUE
    ELSE ExtractText(units, Extension(fname)) = <<>>

\* lines 36-39 and 169-170: the cases in which process_document raises
Raises(fname, units) ==
    IF Extension(fname) \notin supported_formats THEN TRUE
    ELSE IF DecoderRaises(units, Extension(fname)) THEN TRUE
    ELSE Strip(ExtractText(units, Extension(fname))) = <<>>

\* process_document up to the call of chunk_text with its default parameters
ProcessDocument ==
    /\ pc = "process_document"
    /\ IF Raises(filename, file_content)
       THEN /\ pc' = "raised"
            /\ UNCHANGED <<content, text, chunk_size, overlap, category_scores,
                           document_type, doc_metadata>>
       ELSE /\ text' = ExtractText(file_content, Extension(filename))
            /\ content' = text'
            /\ doc_metadata' = ExtractMetadata(text')
            /\ category_scores' = CategoryScores(filename, text')
            /\ document_type' = Classification(category_scores')
            /\ chunk_size' = DefaultChunkSize
            /\ overlap' = DefaultOverlap
            /\ pc' = "chunk_text"
    /\ UNCHANGED <<file_content, filename, start, chunks, spans>>
    /\ UNCHANGED serviceVars

(***************************************************************************)
(* generate_rag_response (rag_service.py 205-265) with the calls it makes: *)
(* analyze_query_intent, generate_embedding and                            *)
(* generate_strategic_response (openai_service.py) and                     *)
(* search_similar_chunks (rag_service.py 125-171).                         *)
(*                                                                         *)
(* A hit carries the file name and the score of a match; a score is an     *)
(* integer number of thousandths.  The texts of the answers are modelled   *)
(* by their kind and by the error message they quote.                      *)
(***************************************************************************)
\* float(match.score): the scores are counted in thousandths
ScoreUnit == 1000

\* rag_service.py 214
top_k == 5

\* a metadata value that is a list of strings, which Pinecone allows: it
\* cannot be added to a set
ListValued == "['A.pdf', 'B.txt']"

\* hashable values: sources.add(chunk["filename"]) of line 237 accepts them
Hashable(fname) == fname # ListValued

\* rag_service.py 220
NoRelevantInformation == [kind |-> "no relevant information", error |-> "none"]

\* rag_service.py 261: the text quotes str(e)
ErrorResponse(e) == [kind |-> "error while processing", error |-> e]

\* openai_service.py 170
NotAvailable == [kind |-> "service not available", error |-> "none"]

\* openai_service.py 214: the content of the completion
Completion == [kind |-> "completion", error |-> "none"]

\* Apology without the message of the exception
Apology_NoMessage(e) == [kind |-> "apology", error |-> "none"]

\* openai_service.py 218: the text quotes str(e)
Apology(e) == [kind |-> "apology", error |-> e]

\* the characters of the decimal digits
Digits == <<"0", "1", "2", "3", "4", "5", "6", "7", "8", "9">>

\* str(n) of a natural number
RECURSIVE Decimal(_)
Decimal(n) ==
    IF n < 10 THEN <<Digits[n + 1]>>
    ELSE Decimal(n \div 10) \o <<Digits[(n % 10) + 1]>>

\* f"{x:.3f}" of a number x of q thousandths in absolute value, negative if
\* neg: the sign, the integer part, a point and three digits
Fixed3(neg, q) ==
    (IF neg THEN <<"-">> ELSE <<>>)
        \o Decimal(q \div ScoreUnit)
        \o <<".", Digits[((q \div 100) % 10) + 1], Digits[((q \div 10) % 10) + 1],
             Digits[(q % 10) + 1]>>

\* the numbers of thousandths nearest to a / n, for a >= 0 and n > 0: the
\* format rounds to the nearest; where a / n lies half way between two
\* thousandths the binary value of the float decides, and either may result
Rounded(a, n) ==
    IF 2 * (a % n) < n THEN {a \div n}
    ELSE IF 2 * (a % n) > n THEN {(a \div n) + 1}
    ELSE {a \div n, (a \div n) + 1}

\* lines 229-238: total_score
RECURSIVE TotalScore(_)
TotalScore(hits) ==
    IF hits = <<>> THEN 0 ELSE Head(hits).score + TotalScore(Tail(hits))

\* Confidences dividing by the number of distinct sources
Confidences_PerSource(hits) ==
    IF hits = <<>> THEN {Fixed3(FALSE, 0)}
    ELSE LET total == TotalScore(hits)
             n == Cardinality({hits[k].filename : k \in 1..Len(hits)})
         IN {Fixed3(total < 0, q) : q \in Rounded(IF total < 0 THEN 0 - total ELSE total, n)}

\* lines 241 and 253: the strings f"{avg_confidence:.3f}" can be
Confidences(hits) ==
    IF hits = <<>> THEN {Fixed3(FALSE, 0)}
    ELSE LET total == TotalScore(hits)
         IN {Fixed3(total < 0, q) :
                q \in Rounded(IF total < 0 THEN 0 - total ELSE total, Len(hits))}

\* lines 228 and 237: the set of the file names of the hits
Sources(hits) == {hits[k].filename : k \in 1..Len(hits)}

\* list(sources) of lines 247 and 252: the elements of the set in the order
\* its iteration gives them, which the hashes of the strings decide (they
\* change from one process to the next); the set is not changed between the
\* two conversions, so both give the same list
Orderings(S) ==
    {seq \in [1..Cardinality(S) -> S] : \A i, j \in 1..Cardinality(S) : i # j => seq[i] # seq[j]}

\* analyze_query_intent (openai_service.py 111-165): the analysis parsed from
\* the completion, or the fallback when there is no client or the call raises
IntentAnalysis == IF client /\ IntentCall \notin failing THEN "parsed" ELSE "fallback"

\* generate_embedding (openai_service.py 60-74)
QueryEmbedding == IF client /\ EmbeddingCall(0) \notin failing THEN "embedding" ELSE "None"

\* search_similar_chunks (rag_service.py 125-171): [] without an index and
\* when anything raises; index.query raises when it fails and when it is
\* given None for the vector
SearchSimilarChunks ==
    IF ~index THEN <<>>
    ELSE IF QueryEmbedding = "None" \/ QueryCall \in failing THEN <<>>
    ELSE matches

\* NoHits never true
NoHits_Never(hits) == FALSE

\* line 218: not similar_chunks
NoHits(hits) == hits = <<>>

\* lines 231-238: the loop raises TypeError when a file name cannot be hashed
AggregationRaises(hits) == \E k \in 1..Len(hits) : ~Hashable(hits[k].filename)

\* generate_strategic_response is reached
Aggregated(hits) == ~NoHits(hits) /\ ~AggregationRaises(hits)

\* generate_strategic_response (openai_service.py 167-218)
StrategicResponse ==
    IF ~client THEN NotAvailable
    ELSE IF CompletionCall \in failing THEN Apology(Message(CompletionCall))
    ELSE Completion

\* lines 219-224
NoHitsAnswer ==
    [response |-> NoRelevantInformation, sources |-> <<>>,
     confidence_score |-> <<"0", ".", "0">>, chunks_found |-> 0]

\* ErrorAnswer without the counters
ErrorAnswer_TextOnly(e) == [response |-> ErrorResponse(e)]

\* lines 258-265
ErrorAnswer(e) ==
    [response |-> ErrorResponse(e), sources |-> <<>>,
     confidence_score |-> <<"0", ".", "0">>, chunks_found |-> 0]

\* HitsAnswer counting the sources for chunks_found
HitsAnswer_CountSources(hits, sources, confidence) ==
    [response |-> StrategicResponse, sources |-> sources,
     confidence_score |-> confidence, chunks_found |-> Len(sources),
     intent_analysis |-> IntentAnalysis]

\* lines 250-256
HitsAnswer(hits, sources, confidence) ==
    [response |-> StrategicResponse, sources |-> sources,
     confidence_score |-> confidence, chunks_found |-> Len(hits),
     intent_analysis |-> IntentAnalysis]

\* the provider calls generate_rag_response makes
Asked(hits) ==
    (IF client THEN {IntentCall} ELSE {})
        \cup (IF index /\ client THEN {EmbeddingCall(0)} ELSE {})
        \cup (IF index THEN {QueryCall} ELSE {})
        \cup (IF Aggregated(hits) /\ client THEN {CompletionCall} ELSE {})

\* generate_rag_response(query, document_type_filter)
GenerateRagResponse ==
    /\ pc = "generate_rag_response"
    /\ similar_chunks' = SearchSimilarChunks
    /\ \E sources \in Orderings(Sources(similar_chunks')),
          confidence \in Confidences(similar_chunks') :
          /\ answer' = IF NoHits(similar_chunks') THEN NoHitsAnswer
                       ELSE IF AggregationRaises(similar_chunks')
                            THEN ErrorAnswer("unhashable type: 'list'")
                            ELSE HitsAnswer(similar_chunks', sources, confidence)
          /\ prompt_sources' = IF Aggregated(similar_chunks') /\ client
                               THEN sources ELSE <<>>
    /\ asked' = Asked(similar_chunks')
    /\ pc' = "answered"
    /\ UNCHANGED <<processorVars, client, index, failing, matches, embeddings, upserts,
                   result, documents, vectors, document_id, reply, query, query_history>>

(***************************************************************************)
(* index_document_chunks (rag_service.py 80-123) with                      *)
(* generate_embeddings_batch (openai_service.py 76-109), and               *)
(* delete_document_vectors (rag_service.py 173-203).  A vector of the      *)
(* index is a record with its id, its values and its metadata.             *)
(***************************************************************************)
\* openai_service.py 83
embedding_batch_size == 100

\* rag_service.py 112
upsert_batch_size == 100

\* rag_service.py 186
delete_top_k == 10000

\* rag_service.py 101: the characters of a chunk kept in the metadata
MetadataTextLen == 1000

\* a missing embedding
None == <<"None">>

\* the embedding of text number i of the list
Embedding(i) == <<"embedding", i>>

\* GenerateEmbeddingsBatch giving up at the first batch whose call raised
GenerateEmbeddingsBatch_GiveUp(texts) ==
    [i \in 1..Len(texts) |->
        IF ~client THEN None
        ELSE IF \E k \in 0..((i - 1) \div embedding_batch_size) : EmbeddingCall(k) \in failing
             THEN None
        ELSE Embedding(i - 1)]

\* generate_embeddings_batch (openai_service.py 76-109): one entry per text;
\* None for every text without a client, and for each text of a batch whose
\* call raised
GenerateEmbeddingsBatch(texts) ==
    [i \in 1..Len(texts) |->
        IF ~client THEN None
        ELSE IF EmbeddingCall((i - 1) \div embedding_batch_size) \in failing THEN None
        ELSE Embedding(i - 1)]

\* line 94: f"doc_{document_id}_chunk_{i}"
VectorId(doc, i) == <<"doc", doc, "chunk", i>>

\* lines 92-109: the vectors built from the chunks and their embeddings
VectorList(doc, fname, type, cs, embs) ==
    [i \in 1..Min(Len(cs), Len(embs)) |->
        [id |-> VectorId(doc, i - 1), values |-> embs[i], document_id |-> doc,
         filename |-> fname, document_type |-> type, chunk_index |-> i - 1,
         text |-> Slice(cs[i], 0, MetadataTextLen), chunk_length |-> Len(cs[i])]]

\* the number of batches of line 113
BatchCount(list) == (Len(list) + upsert_batch_size - 1) \div upsert_batch_size

\* line 114: vectors[i:i + batch_size] for i = k * batch_size
Batch(list, k) == Slice(list, k * upsert_batch_size, (k + 1) * upsert_batch_size)

\* line 115: index.upsert raises when the call fails and when a vector of
\* the batch has None for its values, which Pinecone rejects
UpsertRaises(list, k) ==
    \/ UpsertCall(k) \in failing
    \/ \E j \in 1..Len(Batch(list, k)) : Batch(list, k)[j].values = None

\* the batches upserted before the loop of lines 113-116 ends or raises
UpsertedBatches(list) ==
    {k \in 0..(BatchCount(list) - 1) : \A j \in 0..k : ~UpsertRaises(list, j)}

\* the batches handed to index.upsert: those upserted and the one that raised
HandedBatches(list) ==
    {k \in 0..(BatchCount(list) - 1) : \A j \in 0..(k - 1) : ~UpsertRaises(list, j)}

\* index.upsert: the vectors of the batches stored under their ids
Upsert(vs, list, batches) ==
    LET new == {list[i] : i \in {i \in 1..Len(list) : ((i - 1) \div upsert_batch_size) \in batches}}
    IN {v \in vs : \A w \in new : w.id # v.id} \cup new

\* index_document_chunks(document_id, filename, document_type, chunks)
IndexDocumentChunks ==
    /\ pc = "index_document_chunks"
    /\ IF ~index
       THEN /\ result' = "False"
            /\ UNCHANGED <<embeddings, upserts, vectors, asked>>
       ELSE LET embs == GenerateEmbeddingsBatch(chunks)
                list == VectorList(document_id, filename, document_type, chunks, embs)
            IN /\ embeddings' = embs
               /\ upserts' = [k \in 1..Cardinality(HandedBatches(list)) |-> Batch(list, k - 1)]
               /\ vectors' = Upsert(vectors, list, UpsertedBatches(list))
               /\ asked' = (IF client
                            THEN {EmbeddingCall(k) :
                                    k \in 0..(((Len(chunks) + embedding_batch_size - 1)
                                                  \div embedding_batch_size) - 1)}
                            ELSE {})
                           \cup {UpsertCall(k) : k \in HandedBatches(list)}
               /\ result' = IF Cardinality(UpsertedBatches(list)) = BatchCount(list)
                            THEN "True" ELSE "False"
    /\ pc' = "indexed"
    /\ UNCHANGED <<processorVars, client, index, failing, matches, similar_chunks, answer,
                   prompt_sources, documents, document_id, reply, query, query_history>>

\* lines 181-192: the ids index.query returns for the filter on document_id,
\* at most top_k of them
QueryIds(vs, doc) ==
    LET ids == {v.id : v \in {v \in vs : v.document_id = doc}}
    IN IF Cardinality(ids) <= delete_top_k THEN ids
       ELSE CHOOSE S \in SUBSET ids : Cardinality(S) = delete_top_k

\* delete_document_vectors(document_id) (rag_service.py 173-203): the value
\* returned and the vectors left in the index
DeleteDocumentVectors(idx, fails, vs, doc) ==
    IF ~idx THEN [returned |-> "False", vectors |-> vs]
    ELSE IF QueryCall \in fails THEN [returned |-> "False", vectors |-> vs]
    ELSE IF QueryIds(vs, doc) = {} THEN [returned |-> "True", vectors |-> vs]
    ELSE IF DeleteCall \in fails THEN [returned |-> "False", vectors |-> vs]
    ELSE [returned |-> "True", vectors |-> {v \in vs : v.id \notin QueryIds(vs, doc)}]

(***************************************************************************)
(* The routes upload_document and delete_document (routes.py 54-128,       *)
(* 159-184).  A handler runs from its request to its response without      *)
(* giving up control after the upload is read; a row of the documents      *)
(* table is modelled by its id, filename, document_type and                *)
(* embedding_status.                                                       *)
(***************************************************************************)
\* routes.py 67
route_formats == {<<"p", "d", "f">>, <<"d", "o", "c", "x">>, <<"t", "x", "t">>}

\* routes.py 66: file.filename.split('.')[-1].lower()
RouteExtension(fname) ==
    LET dots == {i \in 1..Len(fname) : fname[i] = "."}
    IN IF dots = {} THEN LowerStr(fname)
       ELSE LowerStr(SubSeq(fname, (CHOOSE i \in dots : \A j \in dots : j <= i) + 1,
                            Len(fname)))

\* lines 61-91: the exception that ends the try block of upload_document.
\* A document that process_document accepts gets as far as the constructor
\* of line 85, whose argument json.dumps(doc_metadata) names a variable that
\* the function does not have (the metadata is bound to `metadata`): a
\* NameError is raised before db_document is bound.
UploadError(fname, units) ==
    IF fname = <<>> THEN "No file provided"
    ELSE IF RouteExtension(fname) \notin route_formats THEN "Unsupported file type"
    ELSE IF Raises(fname, units)
         THEN IF Extension(fname) \notin supported_formats
                 \/ DecoderRaises(units, Extension(fname))
              THEN "Error extracting text"
              ELSE "No text could be extracted from the document"
    ELSE "name 'doc_metadata' is not defined"

\* the id the table gives to a new row
NewId(rows) == IF rows = {} THEN 1 ELSE (CHOOSE m \in {r.id : r \in rows} :
                                             \A r \in rows : r.id <= m) + 1

\* the greatest id of a document
MaxDocId == 2

\* ".txt"
FN_Hidden == <<".", "t", "x", "t">>

\* the file names of the uploads: none, and names with and without a
\* supported extension
UploadNames == {<<>>, FN_Notes, FN_UpperPdf, FN_Exe, FN_Hidden}

\* the uploads: a text, whitespace, nothing, and bytes that are no document
UploadContents == {<<<<"a", ".", " ", "b">>>>, <<<<" ", "\n">>>>, <<<<>>>>, Garbage}

\* the arrival of a request: the route and its arguments, and for
\* delete_document the provider calls that will fail
Request ==
    /\ pc = "listening"
    /\ \E route \in {"upload_document", "delete_document"} :
          /\ pc' = route
          /\ IF route = "upload_document"
             THEN /\ filename' \in UploadNames
                  /\ file_content' \in UploadContents
                  /\ document_id' = 0
                  /\ failing' = {}
             ELSE /\ filename' = <<>>
                  /\ file_content' = <<>>
                  /\ document_id' \in 1..MaxDocId
                  /\ failing' \in SUBSET {QueryCall, DeleteCall, CommitCall}
    /\ reply' = NoReply
    /\ asked' = {}
    /\ UNCHANGED <<content, text, chunk_size, overlap, start, chunks, spans,
                   category_scores, document_type, doc_metadata, client, index, matches,
                   similar_chunks, answer, prompt_sources, embeddings, upserts, result,
                   documents, vectors, query, query_history>>

\* UploadDocument adding the row before the document is processed, and
\* leaving it when the request fails
UploadDocument_PersistFirst ==
    /\ pc = "upload_document"
    /\ documents' = documents \cup
          {[id |-> NewId(documents), filename |-> filename, document_type |-> "general",
            embedding_status |-> "pending"]}
    /\ reply' = [to |-> "upload_document", status |-> 500,
                 detail |-> UploadError(filename, file_content)]
    /\ pc' = "listening"
    /\ UNCHANGED <<processorVars, client, index, failing, matches, similar_chunks, answer,
                   asked, prompt_sources, embeddings, upserts, result, vectors,
                   document_id, query, query_history>>

\* upload_document(file, document_type): every request ends in the handler
\* of lines 119-128 with no db_document to clean up, and is answered 500;
\* a 400 raised inside the try block is caught there as well
UploadDocument ==
    /\ pc = "upload_document"
    /\ reply' = [to |-> "upload_document", status |-> 500,
                 detail |-> UploadError(filename, file_content)]
    /\ pc' = "listening"
    /\ UNCHANGED <<processorVars, client, index, failing, matches, similar_chunks, answer,
                   asked, prompt_sources, embeddings, upserts, result, documents, vectors,
                   document_id, query, query_history>>

\* delete_document(document_id)
DeleteDocument ==
    /\ pc = "delete_document"
    /\ LET rows == {r \in documents : r.id = document_id}
           out == DeleteDocumentVectors(index, failing, vectors, document_id)
       IN IF rows = {}
          THEN /\ reply' = [to |-> "delete_document", status |-> 404,
                            detail |-> "Document not found"]
               /\ UNCHANGED <<documents, vectors, asked>>
          ELSE /\ vectors' = out.vectors
               /\ asked' = (IF index THEN {QueryCall} ELSE {})
                           \cup (IF index /\ QueryCall \notin failing
                                    /\ QueryIds(vectors, document_id) # {}
                                 THEN {DeleteCall} ELSE {})
                           \cup {CommitCall}
               /\ IF CommitCall \in failing
                  THEN /\ documents' = documents
                       /\ reply' = [to |-> "delete_document", status |-> 500,
                                    detail |-> "Error deleting document"]
                  ELSE /\ documents' = documents \ rows
                       /\ reply' = [to |-> "delete_document", status |-> 200,
                                    detail |-> "Document deleted successfully"]
    /\ pc' = "listening"
    /\ UNCHANGED <<processorVars, client, index, failing, matches, similar_chunks, answer,
                   prompt_sources, embeddings, upserts, result, document_id, query,
                   query_history>>

(***************************************************************************)
(* process_document called with a file.                                    *)
(***************************************************************************)
\* a document of n characters: its first character, a filler, and a sentence
\* end ". " at each of the marked positions
Doc(n, head, fill, marks) ==
    [i \in 1..n |-> IF i = 1 THEN head
                    ELSE IF i \in marks THEN "."
                    ELSE IF (i - 1) \in marks THEN " "
                    ELSE fill]

DocLengths == {0, 2, DefaultChunkSize, DefaultChunkSize + 1, 3 * DefaultChunkSize}

DocMarks == {{}, {500}, {801}, {802}, {900}, {999}, {900, 1500}, {802, 1604},
             {999, 1798, 2597}}

Documents ==
    {Doc(n, head, fill, marks) :
        n \in DocLengths, head \in {"a", " "}, fill \in {"a", " "}, marks \in DocMarks}

Init ==
    /\ pc = "process_document"
    /\ file_content \in {<<d>> : d \in Documents} \cup {Garbage}
    /\ filename \in {FN_Notes, FN_UpperPdf, FN_Exe}
    /\ content = <<>>
    /\ text = <<>>
    /\ chunk_size = DefaultChunkSize
    /\ overlap = DefaultOverlap
    /\ start = 0
    /\ chunks = <<>>
    /\ spans = <<>>
    /\ category_scores = <<>>
    /\ document_type = "none"
    /\ doc_metadata = <<>>
    /\ ServiceIdle

Next == ProcessDocument \/ ReturnWhole \/ EnterLoop \/ NextChunk \/ Finish

Spec == Init /\ [][Next]_vars

(***************************************************************************)
(* generate_rag_response called with a query, for every state of the       *)
(* providers and every list of matches the index can return.               *)
(***************************************************************************)
\* the greatest number of matches the index returns
MaxHits == 3

\* no call of DocumentProcessor is in progress
ProcessorIdle ==
    /\ file_content = <<>>
    /\ filename = <<>>
    /\ content = <<>>
    /\ text = <<>>
    /\ chunk_size = DefaultChunkSize
    /\ overlap = DefaultOverlap
    /\ start = 0
    /\ chunks = <<>>
    /\ spans = <<>>
    /\ category_scores = <<>>
    /\ document_type = "none"
    /\ doc_metadata = <<>>

\* matches: scores 0.9, 0.8, 0.7, 0.805 and -0.001, three files, and a match
\* whose filename metadata is a list
Hits ==
    {[filename |-> "A.pdf", score |-> 900], [filename |-> "B.txt", score |-> 800],
     [filename |-> "A.pdf", score |-> 700], [filename |-> "B.txt", score |-> 805],
     [filename |-> "C.docx", score |-> 0 - 1], [filename |-> ListValued, score |-> 900]}

\* the index returns at most top_k matches, the best score first
HitLists ==
    {hits \in UNION {[1..n -> Hits] : n \in 0..Min(MaxHits, top_k)} :
        \A k \in 1..(Len(hits) - 1) : hits[k].score >= hits[k + 1].score}

RagFailures == SUBSET {IntentCall, EmbeddingCall(0), QueryCall, CompletionCall}

InitRag ==
    /\ pc = "generate_rag_response"
    /\ ProcessorIdle
    /\ client \in BOOLEAN
    /\ index \in BOOLEAN
    /\ failing \in RagFailures
    /\ matches \in HitLists
    /\ similar_chunks = <<>>
    /\ answer = NoAnswer
    /\ asked = {}
    /\ prompt_sources = <<>>
    /\ embeddings = <<>>
    /\ upserts = <<>>
    /\ result = "none"
    /\ documents = {}
    /\ vectors = {}
    /\ document_id = 0
    /\ reply = NoReply
    /\ query = <<>>
    /\ query_history = {}

SpecRag == InitRag /\ [][GenerateRagResponse]_vars

(***************************************************************************)
(* index_document_chunks called with the chunks of a document.             *)
(***************************************************************************)
\* the numbers of chunks: none, one, one batch, one more, three batches
ChunkCounts == {0, 1, upsert_batch_size, upsert_batch_size + 1,
                2 * upsert_batch_size + 50}

IndexFailures ==
    SUBSET ({EmbeddingCall(k) : k \in 0..2} \cup {UpsertCall(k) : k \in 0..2})

InitIndex ==
    /\ pc = "index_document_chunks"
    /\ file_content = <<>>
    /\ filename = FN_Notes
    /\ content = <<>>
    /\ text = <<>>
    /\ chunk_size = DefaultChunkSize
    /\ overlap = DefaultOverlap
    /\ start = 0
    /\ chunks \in {Fill(n, <<"a">>) : n \in ChunkCounts}
    /\ spans = <<>>
    /\ category_scores = <<>>
    /\ document_type = "general"
    /\ doc_metadata = <<>>
    /\ client \in BOOLEAN
    /\ index \in BOOLEAN
    /\ failing \in IndexFailures
    /\ matches = <<>>
    /\ similar_chunks = <<>>
    /\ answer = NoAnswer
    /\ asked = {}
    /\ prompt_sources = <<>>
    /\ embeddings = <<>>
    /\ upserts = <<>>
    /\ result = "none"
    /\ documents = {}
    /\ vectors = {}
    /\ document_id = 1
    /\ reply = NoReply
    /\ query = <<>>
    /\ query_history = {}

SpecIndex == InitIndex /\ [][IndexDocumentChunks]_vars

(***************************************************************************)
(* The routes serving requests, from a table and an index that hold what   *)
(* earlier runs have stored: the table and the index outlive the process.  *)
(***************************************************************************)
\* the rows a document can have
StoredRows(d) ==
    {[id |-> d, filename |-> FN_Notes, document_type |-> "general",
      embedding_status |-> s] : s \in {"completed", "failed"}}

\* the vectors of a document of two chunks
StoredVectors(d) ==
    LET list == VectorList(d, FN_Notes, "general", <<<<"a">>, <<"b">>>>,
                           <<Embedding(0), Embedding(1)>>)
    IN {list[i] : i \in 1..Len(list)}

\* the tables: at most one row for each id
Tables ==
    {rows \in SUBSET (UNION {StoredRows(d) : d \in 1..MaxDocId}) :
        \A r, q \in rows : r.id = q.id => r = q}

InitRoutes ==
    /\ pc = "listening"
    /\ ProcessorIdle
    /\ client \in BOOLEAN
    /\ index \in BOOLEAN
    /\ failing = {}
    /\ matches = <<>>
    /\ similar_chunks = <<>>
    /\ answer = NoAnswer
    /\ asked = {}
    /\ prompt_sources = <<>>
    /\ embeddings = <<>>
    /\ upserts = <<>>
    /\ result = "none"
    /\ documents \in Tables
    /\ vectors = UNION {StoredVectors(r.id) :
                          r \in {r \in documents : r.embedding_status = "completed"}}
    /\ document_id = 0
    /\ reply = NoReply
    /\ query = <<>>
    /\ query_history = {}

NextRoutes == Request \/ UploadDocument \/ DeleteDocument

SpecRoutes == InitRoutes /\ [][NextRoutes]_vars

(***************************************************************************)
(* submit_query (routes.py 187-227) serving questions one after another.   *)
(***************************************************************************)
\* the greatest number of rows of the query_history table
MaxQueries == 2

\* the questions: nothing, whitespace, and a question
Queries == {<<>>, <<" ", "\n">>, <<"q", "?">>}

\* what the index finds for a question
QueryMatches == {hits \in HitLists : Len(hits) <= 1}

\* the arrival of a question, and the provider calls that will fail
QueryRequest ==
    /\ pc = "listening"
    /\ Cardinality(query_history) < MaxQueries
    /\ query' \in Queries
    /\ matches' \in QueryMatches
    /\ failing' \in SUBSET {QueryCall, CompletionCall, CommitCall}
    /\ reply' = NoReply
    /\ asked' = {}
    /\ answer' = NoAnswer
    /\ pc' = "submit_query"
    /\ UNCHANGED <<processorVars, client, index, similar_chunks, prompt_sources,
                   embeddings, upserts, result, documents, vectors, document_id,
                   query_history>>

\* lines 194-202: the HTTPException(400) of line 196 is raised inside the
\* try block, whose only handler (lines 226-227, except Exception) catches
\* it and raises HTTPException(500, "Error processing query: ..."), the
\* message of the caught exception following the colon; a question that is
\* not blank goes to generate_rag_response
SubmitQuery ==
    /\ pc = "submit_query"
    /\ IF Strip(query) = <<>>
       THEN /\ reply' = [to |-> "submit_query", status |-> 500,
                         detail |-> "Error processing query"]
            /\ pc' = "listening"
       ELSE /\ reply' = reply
            /\ pc' = "generate_rag_response"
    /\ UNCHANGED <<processorVars, client, index, failing, matches, similar_chunks, answer,
                   asked, prompt_sources, embeddings, upserts, result, documents, vectors,
                   document_id, query, query_history>>

\* lines 204-227: the row of the question is added and committed, and the
\* answer is returned; a commit that fails leaves no row and is answered 500
SaveQueryHistory ==
    /\ pc = "answered"
    /\ asked' = asked \cup {CommitCall}
    /\ IF CommitCall \in failing
       THEN /\ query_history' = query_history
            /\ reply' = [to |-> "submit_query", status |-> 500,
                         detail |-> "Error processing query"]
       ELSE /\ query_history' = query_history \cup
                  {[id |-> NewId(query_history), query |-> query,
                    response |-> answer.response, sources |-> <<"json", answer.sources>>,
                    confidence_score |-> answer.confidence_score]}
            /\ reply' = [to |-> "submit_query", status |-> 200, detail |-> "none"]
    /\ pc' = "listening"
    /\ UNCHANGED <<processorVars, client, index, failing, matches, similar_chunks, answer,
                   prompt_sources, embeddings, upserts, result, documents, vectors,
                   document_id, query>>

InitQuery ==
    /\ pc = "listening"
    /\ ProcessorIdle
    /\ client \in BOOLEAN
    /\ index \in BOOLEAN
    /\ failing = {}
    /\ matches = <<>>
    /\ similar_chunks = <<>>
    /\ answer = NoAnswer
    /\ asked = {}
    /\ prompt_sources = <<>>
    /\ embeddings = <<>>
    /\ upserts = <<>>
    /\ result = "none"
    /\ documents = {}
    /\ vectors = {}
    /\ document_id = 0
    /\ reply = NoReply
    /\ query = <<>>
    /\ query_history = {}

NextQuery == QueryRequest \/ SubmitQuery \/ GenerateRagResponse \/ SaveQueryHistory

SpecQuery == InitQuery /\ [][NextQuery]_vars

(***************************************************************************)
(* Properties of chunk_text.                                               *)
(***************************************************************************)

\* C1: for every text and every chunk_size > overlap >= 0, chunk_text
\* terminates: the cursor loop reaches the final-chunk exit and returns.
\* An iteration is a function of the cursor alone and the cursor stays in
\* 0..len(text)-1, so the loop terminates exactly if no two iterations begin
\* with the same cursor value.
C1_Terminates ==
    (chunk_size > overlap /\ overlap >= 0) =>
        \A j, k \in 1..Len(spans) : j < k => spans[j][1] # spans[k][1]

\* C2: for a text with len(text) <= chunk_size, chunk_text returns exactly
\* one chunk, the input with leading and trailing whitespace trimmed.
C2_WholeTextTrimmed ==
    (pc = "done" /\ Len(text) <= chunk_size) => chunks = <<Strip(text)>>

\* C3: every string of the list chunk_text returns is non-empty after
\* trimming whitespace, the single-chunk path included.
C3_NoEmptyChunk ==
    pc = "done" => \A k \in 1..Len(chunks) : Strip(chunks[k]) # <<>>

\* C4: every chunk chunk_text builds and returns has length at most
\* chunk_size, for chunk_size >= 1 and overlap >= 0.
C4_ChunkLength ==
    (chunk_size >= 1 /\ overlap >= 0) =>
        \A k \in 1..Len(chunks) : Len(chunks[k]) <= chunk_size

\* C4 witness: a returned list of several chunks, one cut at a sentence
\* boundary and one of exactly chunk_size characters.
C4_Witness ==
    /\ pc = "done" /\ overlap >= 0
    /\ Len(chunks) >= 3
    /\ \E k \in 1..Len(chunks) : Len(chunks[k]) = chunk_size
    /\ \E k \in 1..(Len(spans) - 1) : spans[k][2] - spans[k][1] < chunk_size

\* C5: for overlap >= 0 the slices [s_k, e_k) taken in order satisfy
\* s_0 = 0 and s_(k+1) <= e_k, and on return the last one ends at len(text),
\* so that every character position of the text lies in some slice.
C5_SpansCover ==
    (overlap >= 0 /\ pc \in {"loop", "done"}) =>
        /\ spans # <<>> => spans[1][1] = 0
        /\ \A k \in 1..(Len(spans) - 1) : spans[k + 1][1] <= spans[k][2]
        /\ pc = "done" =>
              /\ spans # <<>>
              /\ spans[Len(spans)][2] = Len(text)
              /\ \A p \in 0..(Len(text) - 1) :
                    \E k \in 1..Len(spans) : spans[k][1] <= p /\ p < spans[k][2]

\* C5 witness: a return after at least three slices that overlap, one of
\* them cut at a sentence boundary.
C5_Witness ==
    /\ pc = "done" /\ overlap >= 1
    /\ Len(spans) >= 3
    /\ \E k \in 1..(Len(spans) - 1) : spans[k][2] - spans[k][1] < chunk_size

\* C8: parameters with overlap >= chunk_size are rejected before any chunk
\* is produced; the cursor loop is never entered with them.
C8_InvalidRejected ==
    overlap >= chunk_size => (pc \notin {"loop", "done"} /\ chunks = <<>>)

(***************************************************************************)
(* Properties of process_document.                                         *)
(***************************************************************************)

\* a plain-text upload of 3000 characters has been chunked with
\* chunk_size = 1000 and overlap = 200
PlainText3000Done ==
    /\ pc = "done"
    /\ Extension(filename) = <<".", "t", "x", "t">>
    /\ Len(file_content[1]) = 3000
    /\ chunk_size = 1000
    /\ overlap = 200

\* the slices taken that hold a character other than whitespace
NonBlankSpans ==
    {k \in 1..Len(spans) : Strip(Slice(text, spans[k][1], spans[k][2])) # <<>>}

\* C7: a 3000-character plain-text document with a non-whitespace character,
\* chunked with chunk_size = 1000 and overlap = 200, yields at least 3
\* chunks, each of at most 1000 characters.
C7_ThreeChunks ==
    PlainText3000Done =>
        /\ Len(chunks) >= 3
        /\ \A k \in 1..Len(chunks) : Len(chunks[k]) <= 1000

\* C7 as amended: at least 4 slices are cut, and the chunks returned are
\* those of the slices that are not whitespace-only: at least 1 chunk, at
\* least 3 when no slice is whitespace-only, each of 1 to 1000 characters.
C7_ChunksOfNonBlankSlices ==
    PlainText3000Done =>
        /\ Len(spans) >= 4
        /\ Len(chunks) = Cardinality(NonBlankSpans)
        /\ Len(chunks) >= 1
        /\ Cardinality(NonBlankSpans) = Len(spans) => Len(chunks) >= 3
        /\ \A k \in 1..Len(chunks) : Len(chunks[k]) >= 1 /\ Len(chunks[k]) <= 1000

\* C7 witness: such a document cut into at least 4 slices, one of them at a
\* sentence boundary, of which a whitespace-only one was dropped and at
\* least 2 were returned as chunks.
C7_Witness ==
    /\ PlainText3000Done
    /\ Len(spans) >= 4
    /\ Len(chunks) >= 2
    /\ Len(chunks) < Len(spans)
    /\ \E k \in 1..(Len(spans) - 1) : spans[k][2] - spans[k][1] < chunk_size

(***************************************************************************)
(* Properties of classify_document.                                        *)
(***************************************************************************)

\* The occurrences of keyword in s that a left-to-right count of
\* non-overlapping occurrences takes: an occurrence is taken exactly if it
\* begins at or after the end of every earlier occurrence taken.
TakenOccurrences(s, keyword) ==
    LET occ == {i \in 0..(Len(s) - Len(keyword)) : MatchAt(s, keyword, i)}
    IN CHOOSE G \in SUBSET occ :
           \A i \in occ : (i \in G) <=> (\A j \in G : j < i => j + Len(keyword) <= i)

RECURSIVE SumTo(_, _)
SumTo(f, n) == IF n = 0 THEN 0 ELSE f[n] + SumTo(f, n - 1)

\* The score of a category with the given keywords, as the specification
\* states it: 2 for each keyword found in the lower-cased file name, plus the
\* occurrences of each keyword in the first 1000 characters of the
\* lower-cased content.
StatedScore(keywords, fname, cont) ==
    LET sample == SubSeq(LowerStr(cont), 1, Min(1000, Len(cont)))
    IN 2 * Cardinality({k \in 1..Len(keywords) : Contains(LowerStr(fname), keywords[k])})
         + SumTo([k \in 1..Len(keywords) |->
                     Cardinality(TakenOccurrences(sample, keywords[k]))], Len(keywords))

\* the keywords of a document type; "general" has none
KeywordsOf(type) ==
    IF \E k \in 1..Len(classification_keywords) : classification_keywords[k].category = type
    THEN classification_keywords[CHOOSE k \in 1..Len(classification_keywords) :
                                     classification_keywords[k].category = type].keywords
    ELSE <<>>

DocumentTypes == {"financial", "market_research", "internal", "general"}

\* C9: classify_document returns a category of maximal score, the score of a
\* category being 2 for each of its keywords in the lower-cased file name
\* plus the non-overlapping left-to-right occurrences of its keywords in the
\* first 1000 characters of the lower-cased content; the content after the
\* first 1000 characters does not change the result.
C9_MaximalScore ==
    pc = "classified" =>
        /\ \A k \in 1..Len(classification_keywords) :
              category_scores[k] =
                  StatedScore(classification_keywords[k].keywords, filename, content)
        /\ document_type \in DocumentTypes
        /\ \A t \in DocumentTypes :
              StatedScore(KeywordsOf(t), filename, content)
                  <= StatedScore(KeywordsOf(document_type), filename, content)
        /\ document_type =
              Classification(CategoryScores(filename,
                                 SubSeq(content, 1, Min(1000, Len(content)))))

\* C9 witness: a classification by score of a content longer than 1000
\* characters in which a keyword occurs that the first 1000 characters do
\* not hold, with a keyword in the file name as well.
C9_Witness ==
    /\ pc = "classified"
    /\ Len(content) > 1000
    /\ \E k \in 1..Len(classification_keywords) :
          \E j \in 1..Len(classification_keywords[k].keywords) :
              /\ Contains(LowerStr(content), classification_keywords[k].keywords[j])
              /\ ~Contains(SubSeq(LowerStr(content), 1, 1000),
                           classification_keywords[k].keywords[j])
    /\ \E j \in 1..Len(KeywordsOf(document_type)) :
          Contains(LowerStr(filename), KeywordsOf(document_type)[j])
    /\ document_type # "general"

\* C10: classify_document returns 'general' if and only if the scores of the
\* three keyword categories are all zero, and otherwise one of the three.
C10_GeneralIffZero ==
    pc = "classified" =>
        /\ document_type = "general" <=>
              \A k \in 1..Len(classification_keywords) :
                  StatedScore(classification_keywords[k].keywords, filename, content) = 0
        /\ document_type # "general" =>
              document_type \in {"financial", "market_research", "internal"}

\* C10 witness: 'general' returned for a content that holds keywords, all of
\* them after the first 1000 characters.
C10_Witness ==
    /\ pc = "classified"
    /\ document_type = "general"
    /\ \E k \in 1..Len(classification_keywords) :
          \E j \in 1..Len(classification_keywords[k].keywords) :
              Contains(LowerStr(content), classification_keywords[k].keywords[j])

\* C11: if exactly one category has a positive score (keywords of that
\* category alone occur in the file name or in the first 1000 characters of
\* the content), classify_document returns that category; a keyword in the
\* file name alone, with an empty content, is enough.
C11_OnlyPositiveCategory ==
    pc = "classified" =>
        \A k \in 1..Len(classification_keywords) :
            (/\ StatedScore(classification_keywords[k].keywords, filename, content) > 0
             /\ \A j \in 1..Len(classification_keywords) :
                    j # k => StatedScore(classification_keywords[j].keywords,
                                         filename, content) = 0)
                => document_type = classification_keywords[k].category

\* C11 witness: a file name holding keywords of one category classified
\* with an empty content.
C11_Witness ==
    /\ pc = "classified"
    /\ content = <<>>
    /\ filename = FN_Market
    /\ document_type = "market_research"

(***************************************************************************)
(* More properties of process_document.                                    *)
(***************************************************************************)

\* every text unit the decoder finds in the upload is whitespace
BlankUpload ==
    \A u \in 1..Len(file_content) :
        \A i \in 1..Len(file_content[u]) : IsSpace(file_content[u][i])

\* C20: whenever process_document returns, the text it returns holds a
\* character that is not whitespace; for an upload whose extracted text is
\* empty or whitespace-only it raises, and returns no metadata, type or chunks.
C20_TextNotBlank ==
    /\ pc \in {"chunk_text", "loop", "done"} =>
          \E i \in 1..Len(text) : ~IsSpace(text[i])
    /\ (pc # "process_document" /\ BlankUpload) =>
          /\ pc = "raised"
          /\ doc_metadata = <<>>
          /\ document_type = "none"
          /\ chunks = <<>>

\* C20 witness: process_document has raised on a supported file whose text
\* is not empty and is whitespace only.
C20_Witness ==
    /\ pc = "raised"
    /\ Extension(filename) \in supported_formats
    /\ file_content # Garbage
    /\ Len(file_content[1]) > 0
    /\ BlankUpload

(***************************************************************************)
(* Properties of generate_rag_response.                                    *)
(***************************************************************************)

\* the answer has been returned on the path that aggregates the hits
OnAnswerPath ==
    /\ pc = "answered"
    /\ similar_chunks # <<>>
    /\ \A k \in 1..Len(similar_chunks) : similar_chunks[k].filename # ListValued

\* C12: when the vector search yields zero hits, generate_rag_response
\* returns the canned no-relevant-information answer with confidence_score
\* "0.0", sources [] and chunks_found 0, as a normal result: nothing is
\* raised and the completion provider is not asked for a final answer.
C12_NoHitsCanned ==
    (pc = "answered" /\ similar_chunks = <<>>) =>
        /\ answer.response.kind = "no relevant information"
        /\ answer.response.error = "none"
        /\ answer.confidence_score = <<"0", ".", "0">>
        /\ answer.sources = <<>>
        /\ answer.chunks_found = 0
        /\ CompletionCall \notin asked
        /\ prompt_sources = <<>>

\* C12 witness: an answer after a search that ran, with a client and an
\* index, and found nothing.
C12_Witness ==
    /\ pc = "answered"
    /\ client /\ index
    /\ failing = {}
    /\ matches = <<>>
    /\ QueryCall \in asked
    /\ answer.chunks_found = 0

\* the sum of the scores of the first n hits
RECURSIVE ScoreSum(_, _)
ScoreSum(hits, n) == IF n = 0 THEN 0 ELSE hits[n].score + ScoreSum(hits, n - 1)

\* the digit a character stands for, and -1 for any other character
DigitValue(c) ==
    IF \E d \in 1..10 : Digits[d] = c THEN (CHOOSE d \in 1..10 : Digits[d] = c) - 1
    ELSE 0 - 1

\* the number a sequence of digits writes in base ten
RECURSIVE DigitsValue(_)
DigitsValue(ds) ==
    IF ds = <<>> THEN 0
    ELSE 10 * DigitsValue(SubSeq(ds, 1, Len(ds) - 1)) + DigitValue(ds[Len(ds)])

\* the string without its sign
Unsigned(str) == IF str # <<>> /\ str[1] = "-" THEN Tail(str) ELSE str

\* the string is a number written with exactly three decimal places: an
\* optional sign, one or more digits, a point, three digits
ThreeDecimals(str) ==
    LET u == Unsigned(str)
    IN /\ Len(u) >= 5
       /\ u[Len(u) - 3] = "."
       /\ \A i \in 1..Len(u) : i # Len(u) - 3 => DigitValue(u[i]) >= 0

\* the absolute value, in thousandths, of the number such a string writes
Thousandths(str) ==
    LET u == Unsigned(str)
    IN 1000 * DigitsValue(SubSeq(u, 1, Len(u) - 4))
         + DigitsValue(SubSeq(u, Len(u) - 2, Len(u)))

\* C13: when there is at least one hit, confidence_score is the arithmetic
\* mean of the scores of the hits written with exactly 3 decimal places (the
\* number of thousandths nearest to the mean); scores 0.9, 0.8, 0.7 give
\* "0.800".
C13_MeanThreeDecimals ==
    OnAnswerPath =>
        LET n == Len(similar_chunks)
            total == ScoreSum(similar_chunks, n)
            mag == IF total < 0 THEN 0 - total ELSE total
            diff == Thousandths(answer.confidence_score) * n - mag
        IN /\ ThreeDecimals(answer.confidence_score)
           /\ 2 * diff <= n /\ 2 * (0 - diff) <= n
           /\ (answer.confidence_score[1] = "-") <=> (total < 0)
           /\ (n = 3 /\ \A k \in 1..3 : similar_chunks[k].score = 1000 - 100 * k) =>
                 answer.confidence_score = <<"0", ".", "8", "0", "0">>

\* C13 witness: the answer for hits with scores 0.9, 0.8 and 0.7 from two
\* files.
C13_Witness ==
    /\ OnAnswerPath
    /\ Len(similar_chunks) = 3
    /\ \A k \in 1..3 : similar_chunks[k].score = 1000 - 100 * k
    /\ Cardinality({similar_chunks[k].filename : k \in 1..3}) = 2
    /\ answer.confidence_score = <<"0", ".", "8", "0", "0">>

\* the file names of the hits, each once, in the order in which they are
\* first seen
RECURSIVE FirstSeen(_)
FirstSeen(hits) ==
    IF hits = <<>> THEN <<>>
    ELSE LET before == FirstSeen(SubSeq(hits, 1, Len(hits) - 1))
             f == hits[Len(hits)].filename
         IN IF \E i \in 1..Len(before) : before[i] = f THEN before ELSE Append(before, f)

\* C14: the sources of an answer hold each file name of the hits exactly
\* once, in the order in which the names are first seen in the ranked hits
\* (files A, B, A give [A, B]); the same list is returned and passed to the
\* completion prompt.
C14_FirstSeenOrder ==
    OnAnswerPath =>
        /\ answer.sources = FirstSeen(similar_chunks)
        /\ client => prompt_sources = answer.sources

\* a provider call made for the request has raised, or the aggregation has
FailureOccurred ==
    \/ asked \cap failing # {}
    \/ \E k \in 1..Len(similar_chunks) : similar_chunks[k].filename = ListValued

\* C15: any failure during intent analysis, query embedding, vector search,
\* aggregation or final completion gives a returned answer whose response
\* carries the error message and whose confidence_score is "0.0", sources is
\* empty and chunks_found is 0.
C15_AnyFailureErrorAnswer ==
    (pc = "answered" /\ FailureOccurred) =>
        /\ answer.response.error # "none"
        /\ answer.confidence_score = <<"0", ".", "0">>
        /\ answer.sources = <<>>
        /\ answer.chunks_found = 0

\* C15 as amended: a failure is handled where it occurs.  An exception of
\* the aggregation gives the answer that carries the error message, with
\* "0.0", no sources and chunks_found 0.  A failed query embedding (None,
\* which the index query rejects) or a failed vector search gives zero hits
\* and the canned no-relevant-information answer, which carries no error
\* message.  A failed final completion gives an
\* answer whose response is an apology carrying the error message, with the
\* sources, the mean confidence and the chunks_found of the hits.  A failed
\* intent analysis is replaced by the fallback analysis and changes nothing
\* else of the answer.
C15_FailureHandledInPlace ==
    pc = "answered" =>
        /\ (\E k \in 1..Len(similar_chunks) : similar_chunks[k].filename = ListValued) =>
              /\ answer.response.kind = "error while processing"
              /\ answer.response.error = "unhashable type: 'list'"
              /\ answer.confidence_score = <<"0", ".", "0">>
              /\ answer.sources = <<>>
              /\ answer.chunks_found = 0
        /\ ({EmbeddingCall(0), QueryCall} \cap asked \cap failing # {}) =>
              /\ similar_chunks = <<>>
              /\ answer.response = [kind |-> "no relevant information", error |-> "none"]
              /\ answer.confidence_score = <<"0", ".", "0">>
              /\ answer.sources = <<>>
              /\ answer.chunks_found = 0
        /\ (CompletionCall \in asked \cap failing) =>
              /\ answer.response.kind = "apology"
              /\ answer.response.error = "ChatCompletion.create"
              /\ {answer.sources[i] : i \in 1..Len(answer.sources)}
                    = {similar_chunks[k].filename : k \in 1..Len(similar_chunks)}
              /\ answer.chunks_found = Len(similar_chunks)
              /\ answer.chunks_found > 0
              /\ ThreeDecimals(answer.confidence_score)
        /\ (OnAnswerPath /\ IntentCall \in asked \cap failing) =>
              /\ answer.intent_analysis = "fallback"
              /\ CompletionCall \notin failing => answer.response.kind = "completion"
              /\ answer.chunks_found = Len(similar_chunks)

\* C15 witness: the final completion has failed for three hits, and the
\* answer returned carries the apology, two sources and a confidence.
C15_Witness ==
    /\ pc = "answered"
    /\ failing = {CompletionCall}
    /\ CompletionCall \in asked
    /\ Len(similar_chunks) = 3
    /\ answer.response.kind = "apology"
    /\ Len(answer.sources) = 2
    /\ answer.confidence_score # <<"0", ".", "0">>

\* the value is a string: a sequence of characters
IsString(v) == v \in Seq({"-", "."} \cup {Digits[d] : d \in 1..10})

\* C16: generate_rag_response never raises to its caller and always returns
\* a well-formed answer, with response, sources, confidence_score and
\* chunks_found, whatever the providers do: no client, no index, an
\* embedding that is None, or any provider call raising.
C16_AlwaysWellFormed ==
    /\ pc \in {"generate_rag_response", "answered"}
    /\ pc = "answered" =>
          /\ {"response", "sources", "confidence_score", "chunks_found"}
                \subseteq DOMAIN answer
          /\ answer.response.kind \in {"no relevant information", "error while processing",
                                       "service not available", "completion", "apology"}
          /\ DOMAIN answer.sources = 1..Len(answer.sources)
          /\ IsString(answer.confidence_score)
          /\ answer.chunks_found \in 0..top_k

\* C16 witness: the answer returned after an exception reached the handler
\* of generate_rag_response, the intent analysis having failed as well.
C16_Witness ==
    /\ pc = "answered"
    /\ failing = {IntentCall, CompletionCall}
    /\ answer.response.kind = "error while processing"
    /\ "chunks_found" \in DOMAIN answer

(***************************************************************************)
(* Properties of index_document_chunks and of the routes.                  *)
(***************************************************************************)

\* C17: when the embedding of some chunks fails (their entries of the
\* embedding list are None), those chunks are filtered out before indexing
\* and the vectors of the other chunks are still upserted: no vector without
\* values is handed to the index, every chunk that has an embedding is in
\* the index when no upsert call fails, and nothing is raised.
C17_MissingEmbeddingsFiltered ==
    (pc = "indexed" /\ index) =>
        /\ \A b \in 1..Len(upserts) :
              \A j \in 1..Len(upserts[b]) : upserts[b][j].values # None
        /\ (\A k \in 0..2 : UpsertCall(k) \notin failing) =>
              \A i \in 1..Len(chunks) :
                  embeddings[i] # None =>
                      \E v \in vectors : /\ v.document_id = document_id
                                         /\ v.chunk_index = i - 1
                                         /\ v.values = embeddings[i]

\* C18: after delete_document(document_id) reports success for an existing
\* document, the index holds no vector whose metadata document_id is that
\* id (the vectors go before the row of the table does).
C18_NoVectorAfterDelete ==
    (reply.to = "delete_document" /\ reply.status = 200) =>
        \A v \in vectors : v.document_id # document_id

\* the upload holds no text that can be extracted: it is whitespace only, or
\* it is not a file of the format its name gives
NoTextInUpload ==
    \/ BlankUpload
    \/ file_content = Garbage /\ RouteExtension(filename) \in {<<"p", "d", "f">>, <<"d", "o", "c", "x">>}

\* C19: if the text extraction fails or yields no text during
\* upload_document, the request is rejected with an error, and the table and
\* the index are as they were before the request: no row and no vector
\* exists for the upload.
C19_FailedUploadLeavesNothing ==
    [][(pc = "upload_document" /\ pc' = "listening" /\ NoTextInUpload) =>
          /\ reply'.to = "upload_document"
          /\ reply'.status >= 400
          /\ documents' = documents
          /\ vectors' = vectors]_vars

\* C19 witness: an upload of whitespace under a supported name has been
\* rejected, with a table and an index that hold other documents.
C19_Witness ==
    /\ pc = "listening"
    /\ reply.to = "upload_document"
    /\ reply.status = 500
    /\ reply.detail = "No text could be extracted from the document"
    /\ filename = FN_Notes
    /\ Len(file_content[1]) > 0
    /\ BlankUpload
    /\ documents # {}
    /\ vectors # {}


(***************************************************************************)
(* Properties of the break point and of the cursor of chunk_text.          *)
(***************************************************************************)

\* the slices of the iterations that were not the last: an iteration that
\* is not the last ends before the end of the text
NonFinal(k) == spans[k][2] < Len(text)

\* the indices of a window the stated rule admits: within the last 200
\* characters and not before index 0, not the last index, a sentence ending,
\* followed by whitespace or an upper-case letter
StatedBreakIndices(w) ==
    {i \in 0..(Len(w) - 1) :
        /\ i >= Len(w) - 200
        /\ i # Len(w) - 1
        /\ w[i + 1] \in {".", "!", "?", "\n"}
        /\ (w[i + 2] \in {" ", "\n", "\t", "\r"}
            \/ \E u \in 1..Len(UpperLetters) : UpperLetters[u] = w[i + 2])}

\* C21: in each iteration of chunk_text that is not the last, the break
\* point is i+1 for the rightmost index i of the window within its last 200
\* characters that is not the last index, holds a sentence ending and is
\* followed by whitespace or an upper-case letter; without such an index no
\* break point is used and the slice is the whole window.
C21_RightmostInLast200 ==
    \A k \in 1..Len(spans) :
        NonFinal(k) =>
            LET s == spans[k][1]
                w == Slice(text, s, s + chunk_size)
                idx == StatedBreakIndices(w)
            IN spans[k][2] =
                  IF idx = {} THEN s + chunk_size
                  ELSE s + (CHOOSE i \in idx : \A j \in idx : j <= i) + 1


\* C22: when an iteration of chunk_text that is not the last finds a break
\* point b, it emits text[start:start+b] trimmed and moves the cursor to
\* max(0, start + b - overlap); when it finds none, it emits
\* text[start:start+chunk_size] trimmed and moves the cursor to
\* max(0, start + chunk_size - overlap).  (The list of a run that repeats a
\* cursor value is recorded up to len(text) + 1 chunks only.)
C22_EmitAndAdvance ==
    [][(pc = "loop" /\ pc' = "loop") =>
          LET b == BestBreak(Slice(text, start, start + chunk_size))
              cut == IF b > 0 THEN start + b ELSE start + chunk_size
          IN /\ start' = Max(0, cut - overlap)
             /\ Len(chunks) <= Len(text) =>
                   chunks' = Append(chunks, Strip(Slice(text, start, cut)))]_vars

\* C22 witness: the loop after an iteration that cut at a sentence boundary
\* inside the window and one that took the whole window, with an overlap
C22_Witness ==
    /\ pc = "loop" /\ overlap >= 1
    /\ Len(spans) >= 2
    /\ \E k \in 1..Len(spans) : spans[k][2] - spans[k][1] < chunk_size
    /\ \E k \in 1..Len(spans) : spans[k][2] - spans[k][1] = chunk_size
    /\ start = spans[Len(spans)][2] - overlap


\* C23: for every text and every chunk_size > overlap >= 0, the cursor of
\* chunk_text never goes backwards: after every iteration that is not the
\* last, start is at least what it was when the iteration began.
C23_CursorNeverBack ==
    [][(pc = "loop" /\ pc' = "loop" /\ chunk_size > overlap /\ overlap >= 0) =>
          start' >= start]_vars

\* C23 witness: with an overlap of three or more, an iteration that began
\* past the start of the text cut at a break point no further from the
\* cursor than the overlap, and the cursor is where that iteration began
C23_Witness ==
    /\ pc = "loop" /\ chunk_size > overlap /\ overlap >= 3
    /\ Len(spans) >= 2
    /\ LET last == spans[Len(spans)]
       IN /\ last[1] > 0
          /\ last[2] - last[1] < chunk_size
          /\ last[2] - last[1] <= overlap
          /\ start = last[1]


(***************************************************************************)
(* Properties of the tie-break of classify_document.                       *)
(***************************************************************************)
\* the order in which the keyword table defines the categories
DefinitionOrder == <<"financial", "market_research", "internal">>

\* the categories whose stated score is the highest, when that is positive
TiedCategories ==
    {k \in 1..3 :
        /\ StatedScore(KeywordsOf(DefinitionOrder[k]), filename, content) > 0
        /\ \A j \in 1..3 :
              StatedScore(KeywordsOf(DefinitionOrder[j]), filename, content)
                  <= StatedScore(KeywordsOf(DefinitionOrder[k]), filename, content)}

\* C24: when two or more categories tie for the highest positive score,
\* classify_document returns the one the keyword table defines first:
\* financial before market_research before internal.
C24_FirstDefinedWins ==
    (pc = "classified" /\ Cardinality(TiedCategories) >= 2) =>
        \E k \in TiedCategories :
            /\ document_type = DefinitionOrder[k]
            /\ \A j \in TiedCategories : k <= j

\* C24 witness: market_research returned on a tie with internal, financial
\* scoring less
C24_Witness ==
    /\ pc = "classified"
    /\ TiedCategories = {2, 3}
    /\ document_type = "market_research"


(***************************************************************************)
(* Properties of generate_embeddings_batch.                                *)
(***************************************************************************)
\* C25: generate_embeddings_batch returns one entry per input text, in the
\* order of the texts: the texts go in consecutive batches of 100, the
\* texts of a batch whose provider call fails get None, the batches after
\* it are still attempted, and entry i is the embedding of text i or None.
C25_OneEntryPerText ==
    (pc = "indexed" /\ index) =>
        /\ Len(embeddings) = Len(chunks)
        /\ client =>
              /\ \A i \in 1..Len(chunks) :
                    embeddings[i] =
                        IF <<"Embedding.create", (i - 1) \div 100>> \in failing
                        THEN <<"None">>
                        ELSE <<"embedding", i - 1>>
              /\ \A k \in 0..2 :
                    k * 100 < Len(chunks) => <<"Embedding.create", k>> \in asked
        /\ ~client => \A i \in 1..Len(chunks) : embeddings[i] = <<"None">>

\* C25 witness: 250 texts whose second batch failed, the first and the
\* third answered
C25_Witness ==
    /\ pc = "indexed" /\ index /\ client
    /\ Len(chunks) = 250
    /\ EmbeddingCall(1) \in failing
    /\ embeddings[100] = Embedding(99)
    /\ embeddings[101] = None /\ embeddings[200] = None
    /\ embeddings[201] = Embedding(200)
    /\ embeddings[250] = Embedding(249)


(***************************************************************************)
(* Properties of submit_query.                                             *)
(***************************************************************************)
\* C26: submit_query with an empty or whitespace-only query is rejected
\* with HTTP status 400 and detail 'Query cannot be empty', without a call
\* of the RAG service and without a new row of the query_history table.
C26_BlankQueryRejected400 ==
    [][(pc = "submit_query" /\ \A i \in 1..Len(query) : IsSpace(query[i])) =>
          /\ reply'.to = "submit_query"
          /\ reply'.status = 400
          /\ reply'.detail = "Query cannot be empty"
          /\ asked' = {}
          /\ query_history' = query_history]_vars


(***************************************************************************)
(* Properties of upload_document and of the index across requests.         *)
(***************************************************************************)
\* an upload of a file of a supported type whose text can be extracted and
\* is not blank
GoodUpload ==
    /\ filename # <<>>
    /\ RouteExtension(filename) \in {<<"p", "d", "f">>, <<"d", "o", "c", "x">>, <<"t", "x", "t">>}
    /\ ~Raises(filename, file_content)

\* C27: upload_document on a supported file with extractable, non-empty
\* text completes successfully: exactly one row is added to the documents
\* table, its embedding_status is 'completed' if index_document_chunks
\* returned True and 'failed' otherwise, and no row of the upload is left
\* 'pending' when the request has returned.
C27_GoodUploadPersisted ==
    [][(pc = "upload_document" /\ pc' = "listening" /\ GoodUpload) =>
          /\ reply'.to = "upload_document"
          /\ reply'.status = 200
          /\ \E r \in documents' :
                /\ r \notin documents
                /\ documents' = documents \cup {r}
                /\ r.filename = filename
                /\ r.embedding_status = IF result' = "True" THEN "completed" ELSE "failed"
          /\ \A r \in documents' : r.embedding_status # "pending"]_vars


\* C28: after any sequence of completed upload_document and delete_document
\* requests, those with failing provider calls or commits included, every
\* vector of the index carries the document_id of a row of the documents
\* table: the index holds no vector of a document that is gone.
C28_NoOrphanVectors ==
    pc = "listening" =>
        \A v \in vectors : \E r \in documents : r.id = v.document_id


(***************************************************************************)
(* Properties of the counters of the answer of generate_rag_response.      *)
(***************************************************************************)
\* C29: in every answer generate_rag_response returns, sources is empty if
\* and only if chunks_found is 0, there are at most chunks_found sources,
\* and chunks_found is the number of hits the vector search returned (at
\* most the top-K of 5) on the answer path, and 0 when there was no hit and
\* on the error path.
C29_CountersAgree ==
    pc = "answered" =>
        /\ (answer.sources = <<>>) <=> (answer.chunks_found = 0)
        /\ Len(answer.sources) <= answer.chunks_found
        /\ answer.chunks_found <= 5
        /\ answer.chunks_found =
              IF similar_chunks = <<>> \/ answer.response.kind = "error while processing"
              THEN 0
              ELSE Len(similar_chunks)

\* C29 witness: an answer from three hits of two files
C29_Witness ==
    /\ pc = "answered"
    /\ Len(similar_chunks) = 3
    /\ answer.chunks_found = 3
    /\ Len(answer.sources) = 2

====
